---- MODULE Spec2Model ----
(***************************************************************************)
(* Model of daily-stoic-rs (src/src/main.rs): one run of main, and the     *)
(* pure functions it is built from (get_date_arg, increment_date,          *)
(* get_date_text, format_daily, fix_text_using_llm).                       *)
(*                                                                         *)
(* A Rust &str / String is a sequence of characters; a character is a      *)
(* one-element TLA+ string, except the em-dash U+2014, written "EMDASH".   *)
(* Option<T>: None is <<>>, Some(x) is <<x>>.                              *)
(***************************************************************************)
EXTENDS Integers, Sequences, FiniteSets, TLC

VARIABLES
    pc,         \* the statement of main (or of the function under study) to run next
    args,       \* env::args()
    date,       \* Option: main's date
    next_date,  \* Option: main's next_date
    body,       \* Option: main's body
    date_text,  \* Option: main's date_text
    daily,      \* Option: main's daily
    replies,    \* what the LLM endpoint answered, one entry per fix_text_using_llm call
    results,    \* what fix_text_using_llm returned, one entry per call
    calls,      \* the texts posted to the LLM endpoint, in order
    stdout,     \* the values println! wrote, in order
    started,    \* the stages of main entered so far, in order
    outcome     \* "running", "ok" (Ok(())), "err" (Err returned), "panic"

vars == <<pc, args, date, next_date, body, date_text, daily, replies, results,
          calls, stdout, started, outcome>>

None == <<>>
Some(x) == <<x>>

\* ------------------------------------------------------------------ bounds
\* longest document, in lines, that the locate specification draws
MaxDocLines == 4
\* longest block, in lines, that the segment specification draws
MaxBlockLines == 5
\* longest document body, in lines, that a run of main fetches
MaxBodyLines == 5

\* ------------------------------------------------------------- characters
EmDash == "EMDASH"
NL == "\n"
CR == "\r"
SP == " "

\* char::is_whitespace, restricted to the characters the model draws
IsWhitespace(c) == c \in {SP, NL, CR, "\t"}

Digits == <<"0", "1", "2", "3", "4", "5", "6", "7", "8", "9">>
IsDigit(c) == \E i \in 1..10 : Digits[i] = c
DigitVal(c) == (CHOOSE i \in 1..10 : Digits[i] = c) - 1

UpperCase == <<"A","B","C","D","E","F","G","H","I","J","K","L","M",
               "N","O","P","Q","R","S","T","U","V","W","X","Y","Z">>
LowerCase == <<"a","b","c","d","e","f","g","h","i","j","k","l","m",
               "n","o","p","q","r","s","t","u","v","w","x","y","z">>

\* u8::to_ascii_lowercase
ToAsciiLower(c) ==
    IF \E i \in 1..26 : UpperCase[i] = c
    THEN LowerCase[CHOOSE i \in 1..26 : UpperCase[i] = c]
    ELSE c

LowerStr(s) == [i \in 1..Len(s) |-> ToAsciiLower(s[i])]

\* <[u8]>::eq_ignore_ascii_case
EqIgnoreAsciiCase(s, t) == LowerStr(s) = LowerStr(t)

\* str::starts_with
starts_with(line, prefix) ==
    /\ Len(prefix) <= Len(line)
    /\ SubSeq(line, 1, Len(prefix)) = prefix

Drop(s, n) == SubSeq(s, n + 1, Len(s))

RECURSIVE trim_start(_)
trim_start(s) ==
    IF s # <<>> /\ IsWhitespace(Head(s)) THEN trim_start(Tail(s)) ELSE s

RECURSIVE trim_end(_)
trim_end(s) ==
    IF s # <<>> /\ IsWhitespace(s[Len(s)])
    THEN trim_end(SubSeq(s, 1, Len(s) - 1))
    ELSE s

\* str::trim
trim(s) == trim_end(trim_start(s))

\* [&str]::join(sep)
RECURSIVE join(_, _)
join(ls, sep) ==
    IF ls = <<>> THEN <<>>
    ELSE IF Len(ls) = 1 THEN ls[1]
    ELSE ls[1] \o sep \o join(Tail(ls), sep)

\* str::lines, one terminator-delimited piece: a trailing "\n" and then a
\* trailing "\r" before it are removed
StripLineEnding(piece) ==
    IF piece # <<>> /\ piece[Len(piece)] = NL
    THEN LET l == SubSeq(piece, 1, Len(piece) - 1)
         IN  IF l # <<>> /\ l[Len(l)] = CR
             THEN SubSeq(l, 1, Len(l) - 1)
             ELSE l
    ELSE piece

\* str::lines: split after every "\n" (split_inclusive), no empty last piece
RECURSIVE LinesFrom(_, _)
LinesFrom(s, cur) ==
    IF s = <<>>
    THEN IF cur = <<>> THEN <<>> ELSE <<StripLineEnding(cur)>>
    ELSE IF Head(s) = NL
         THEN <<StripLineEnding(Append(cur, NL))>> \o LinesFrom(Tail(s), <<>>)
         ELSE LinesFrom(Tail(s), Append(cur, Head(s)))

lines(text) == LinesFrom(text, <<>>)

\* ------------------------------------------------------------------ chrono
MonthNames == <<
    <<"J","a","n","u","a","r","y">>,
    <<"F","e","b","r","u","a","r","y">>,
    <<"M","a","r","c","h">>,
    <<"A","p","r","i","l">>,
    <<"M","a","y">>,
    <<"J","u","n","e">>,
    <<"J","u","l","y">>,
    <<"A","u","g","u","s","t">>,
    <<"S","e","p","t","e","m","b","e","r">>,
    <<"O","c","t","o","b","e","r">>,
    <<"N","o","v","e","m","b","e","r">>,
    <<"D","e","c","e","m","b","e","r">> >>

\* the proleptic Gregorian leap-year rule of NaiveDate
IsLeapYear(y) == (y % 4 = 0 /\ y % 100 # 0) \/ y % 400 = 0

DaysInMonth(y, m) ==
    IF m = 2 THEN (IF IsLeapYear(y) THEN 29 ELSE 28)
    ELSE IF m \in {4, 6, 9, 11} THEN 30 ELSE 31

\* NaiveDate::from_ymd_opt(...).is_some()
ValidYmd(y, m, d) == m \in 1..12 /\ d >= 1 /\ d <= DaysInMonth(y, m)

\* a NaiveDate
Ymd(y, m, d) == [y |-> y, m |-> m, d |-> d]

\* scan::short_or_long_month0: a three-letter month name, any case, then
\* the rest of the long name if it follows; <<>> when no month matches
ParseMonth(s) ==
    IF Len(s) < 3 THEN None
    ELSE LET hits == {m \in 1..12 :
                        EqIgnoreAsciiCase(SubSeq(s, 1, 3), SubSeq(MonthNames[m], 1, 3))}
         IN  IF hits = {} THEN None
             ELSE LET m == CHOOSE x \in hits : TRUE
                      suffix == Drop(MonthNames[m], 3)
                      rest == Drop(s, 3)
                  IN  IF Len(rest) >= Len(suffix)
                         /\ EqIgnoreAsciiCase(SubSeq(rest, 1, Len(suffix)), suffix)
                      THEN Some([val |-> m, rest |-> Drop(rest, Len(suffix))])
                      ELSE Some([val |-> m, rest |-> rest])

RECURSIVE DigitRun(_, _)
DigitRun(s, max) ==
    IF max = 0 \/ s = <<>> \/ ~IsDigit(Head(s)) THEN 0
    ELSE 1 + DigitRun(Tail(s), max - 1)

RECURSIVE DecimalValue(_)
DecimalValue(ds) ==
    IF ds = <<>> THEN 0
    ELSE 10 * DecimalValue(SubSeq(ds, 1, Len(ds) - 1)) + DigitVal(ds[Len(ds)])

\* a numeric item: leading whitespace skipped, then 1..max digits
ParseNumber(s0, max) ==
    LET s == trim_start(s0)
        n == DigitRun(s, max)
    IN  IF n = 0 THEN None
        ELSE Some([val |-> DecimalValue(SubSeq(s, 1, n)), rest |-> Drop(s, n)])

\* NaiveDate::parse_from_str(s, "%B %-d %Y"): Some(date) or None (Err)
parse_from_str(s) ==
    LET pm == ParseMonth(s)
    IN  IF pm = None THEN None
        ELSE LET pday == ParseNumber(trim_start(pm[1].rest), 2)
             IN  IF pday = None THEN None
                 ELSE LET pyear == ParseNumber(trim_start(pday[1].rest), 4)
                      IN  IF pyear = None THEN None
                          ELSE IF pyear[1].rest # <<>> THEN None
                          ELSE IF ~ValidYmd(pyear[1].val, pm[1].val, pday[1].val) THEN None
                          ELSE Some(Ymd(pyear[1].val, pm[1].val, pday[1].val))

\* "{}" of a day of the month, not padded ("%-d")
DayText(d) ==
    IF d < 10 THEN <<Digits[d + 1]>>
    ELSE <<Digits[(d \div 10) + 1], Digits[(d % 10) + 1]>>

\* NaiveDate::format("%B %-d").to_string()
format(dt) == MonthNames[dt.m] \o <<SP>> \o DayText(dt.d)

\* dt + Days::new(1)
PlusOneDay(dt) ==
    IF dt.d < DaysInMonth(dt.y, dt.m) THEN Ymd(dt.y, dt.m, dt.d + 1)
    ELSE IF dt.m < 12 THEN Ymd(dt.y, dt.m + 1, 1)
    ELSE Ymd(dt.y + 1, 1, 1)

YearSuffix == <<SP, "2", "0", "0", "0">>

\* NaiveDate::with_year(2000): None when the day does not exist in 2000
with_year_2000(dt) ==
    IF ValidYmd(2000, dt.m, dt.d) THEN Some(Ymd(2000, dt.m, dt.d)) ELSE None

\* ------------------------------------------------------------ get_date_arg
Ok(v) == [ok |-> TRUE, val |-> v]
Err(kind) == [ok |-> FALSE, val |-> kind]

\* argv is args; today is Local::now().date_naive()
get_date_arg(argv, today) ==
    IF Len(argv) < 3
    THEN Ok(format(with_year_2000(today)[1]))
    ELSE LET dt == parse_from_str(argv[3] \o YearSuffix)
         IN  IF dt = None THEN Err("Invalid date format")
             ELSE Ok(format(dt[1]))

\* ---------------------------------------------------------- increment_date
\* increment_date on a calendar without February 29
increment_date_no_leap(d) ==
    LET dt == parse_from_str(d \o YearSuffix)[1]
    IN  format(IF dt.m = 2 /\ dt.d = 28 THEN Ymd(dt.y, 3, 1) ELSE PlusOneDay(dt))

increment_date(d) ==
    LET dt == parse_from_str(d \o YearSuffix)[1]
    IN  format(PlusOneDay(dt))

\* ----------------------------------------------------------- get_date_text
\* the counting loops of get_date_text: the index of the first line at or
\* after i (0-based) that starts with prefix, Len(ls) when there is none
RECURSIVE ScanFrom(_, _, _)
ScanFrom(ls, prefix, i) ==
    IF i >= Len(ls) THEN i
    ELSE IF starts_with(ls[i + 1], prefix) THEN i
    ELSE ScanFrom(ls, prefix, i + 1)

\* lines[start..end] of a 0-based, half-open range
Slice(ls, start, end) == SubSeq(ls, start + 1, end)

\* get_date_text with the scan for the end started at start, not start + 1
get_date_text_end_from_start(text, d, nd) ==
    LET ls == lines(text)
        start == ScanFrom(ls, d, 0)
    IN  IF start >= Len(ls) THEN None
        ELSE LET end == ScanFrom(ls, nd, start)
             IN  IF end >= Len(ls) THEN None
                 ELSE Some(join(Slice(ls, start, end), <<NL>>))

\* get_date_text without the check of lines 107-108: no successor line
\* makes the block run to the last line
get_date_text_to_eof(text, d, nd) ==
    LET ls == lines(text)
        start == ScanFrom(ls, d, 0)
    IN  IF start >= Len(ls) THEN None
        ELSE LET end == ScanFrom(ls, nd, start + 1)
             IN  Some(join(Slice(ls, start, end), <<NL>>))

get_date_text(text, d, nd) ==
    LET ls == lines(text)
        start == ScanFrom(ls, d, 0)
    IN  IF start >= Len(ls) THEN None
        ELSE LET end == ScanFrom(ls, nd, start + 1)
             IN  IF end >= Len(ls) THEN None
                 ELSE Some(join(Slice(ls, start, end), <<NL>>))

\* ------------------------------------------------------------ format_daily
Daily(d, t, q, a, e) ==
    [date |-> d, title |-> t, quote |-> q, quoter |-> a, explanation |-> e]

\* the loop over lines[quote_start..]: Some(index) of the first line at or
\* after i (0-based) that starts with the em-dash, None when there is none
RECURSIVE FindQuoteEnd(_, _)
FindQuoteEnd(ls, i) ==
    IF i >= Len(ls) THEN None
    ELSE IF starts_with(ls[i + 1], <<EmDash>>) THEN Some(i)
    ELSE FindQuoteEnd(ls, i + 1)

\* format_daily with the scan for the em-dash started at line 0
format_daily_scan_from_0(text) ==
    LET ls == lines(text)
    IN  IF Len(ls) < 2 THEN None
        ELSE LET quote_end == FindQuoteEnd(ls, 0)
             IN  IF quote_end = None THEN None
                 ELSE Some(Daily(
                        trim(ls[1]),
                        trim(ls[2]),
                        trim(join(Slice(ls, 2, quote_end[1]), <<SP>>)),
                        trim(ls[quote_end[1] + 1]),
                        trim(join(Slice(ls, quote_end[1] + 1, Len(ls)), <<SP>>))))

\* format_daily with unwrap_or(lines.len()) in place of expect: no em-dash
\* line makes the rest of the block the quote
format_daily_lenient(text) ==
    LET ls == lines(text)
    IN  IF Len(ls) < 2 THEN None
        ELSE LET quote_end == FindQuoteEnd(ls, 2)
             IN  IF quote_end = None
                 THEN Some(Daily(trim(ls[1]), trim(ls[2]),
                                 trim(join(Slice(ls, 2, Len(ls)), <<SP>>)),
                                 <<>>, <<>>))
                 ELSE Some(Daily(
                        trim(ls[1]),
                        trim(ls[2]),
                        trim(join(Slice(ls, 2, quote_end[1]), <<SP>>)),
                        trim(ls[quote_end[1] + 1]),
                        trim(join(Slice(ls, quote_end[1] + 1, Len(ls)), <<SP>>))))

\* Some(Daily), or None when the function panics (lines[0], lines[1], expect)
format_daily(text) ==
    LET ls == lines(text)
    IN  IF Len(ls) < 2 THEN None
        ELSE LET quote_end == FindQuoteEnd(ls, 2)
             IN  IF quote_end = None THEN None
                 ELSE Some(Daily(
                        trim(ls[1]),
                        trim(ls[2]),
                        trim(join(Slice(ls, 2, quote_end[1]), <<SP>>)),
                        trim(ls[quote_end[1] + 1]),
                        trim(join(Slice(ls, quote_end[1] + 1, Len(ls)), <<SP>>))))

\* ------------------------------------------------------ fix_text_using_llm
\* serde_json::Value
JNull == [t |-> "null"]
JNumber == [t |-> "number"]
JString(s) == [t |-> "string", s |-> s]
JArray(items) == [t |-> "array", items |-> items]
JObject(fields) == [t |-> "object", fields |-> fields]

\* Value::get(key): Some(member) of an object that has the key, else None
Get(v, key) ==
    IF v.t = "object" /\ key \in DOMAIN v.fields THEN Some(v.fields[key]) ELSE None

\* Value::get(n)
GetAt(v, n) ==
    IF v.t = "array" /\ n < Len(v.items) THEN Some(v.items[n + 1]) ELSE None

\* v[key] and v[n]: Value::Null for what is not there
Index(v, key) == IF Get(v, key) = None THEN JNull ELSE Get(v, key)[1]
IndexAt(v, n) == IF GetAt(v, n) = None THEN JNull ELSE GetAt(v, n)[1]

\* Value::as_str
as_str(v) == IF v.t = "string" THEN Some(v.s) ELSE None

\* What the environment and the endpoint do to one call: fault is "none",
\* or the step that fails ("endpoint", "api_key": env::var; "send": the
\* request; "json": the body is not JSON); json is response_json.
Reply(fault, json) == [fault |-> fault, json |-> json]

\* the decoding with the content looked at before the error member
DecodeResponseContentFirst(response_json) ==
    LET content ==
          as_str(Index(Index(IndexAt(Index(response_json, "choices"), 0),
                             "message"), "content"))
        error == Get(response_json, "error")
    IN  IF content # None THEN Ok(content[1])
        ELSE IF error = None THEN Err(<<"Failed to extract content">>)
        ELSE IF Get(error[1], "message") # None
             THEN Err(<<"LLM error", Get(error[1], "message")[1]>>)
             ELSE Err(<<"LLM error and no message">>)

\* lines 215-228: the decoding of response_json
DecodeResponse(response_json) ==
    LET error == Get(response_json, "error")
    IN  IF error # None
        THEN LET message == Get(error[1], "message")
             IN  IF message # None
                 THEN Err(<<"LLM error", message[1]>>)
                 ELSE Err(<<"LLM error and no message">>)
        ELSE LET content ==
                   as_str(Index(Index(IndexAt(Index(response_json, "choices"), 0),
                                      "message"), "content"))
             IN  IF content = None
                 THEN Err(<<"Failed to extract content">>)
                 ELSE Ok(content[1])

fix_text_using_llm(text, reply) ==
    IF reply.fault = "endpoint" THEN Err(<<"Failed to retrive endpoint">>)
    ELSE IF reply.fault = "api_key" THEN Err(<<"Failed to retrive API key">>)
    ELSE IF reply.fault = "send" THEN Err(<<"LLM request failed">>)
    ELSE IF reply.fault = "json" THEN Err(<<"Failed to parse LLM response JSON">>)
    ELSE DecodeResponse(reply.json)

\* the request is posted once both environment variables were read
Posted(reply) == reply.fault \notin {"endpoint", "api_key"}

\* ==================================================================== main
\* the sentinel main passes as next_date for the last day (line 20)
StayingStoic == <<"S","T","A","Y","I","N","G"," ","S","T","O","I","C">>
December31 == <<"D","e","c","e","m","b","e","r"," ","3","1">>

\* ------------------------------------------------------------ inputs drawn
March3 == <<"M","a","r","c","h"," ","3">>
March4 == <<"M","a","r","c","h"," ","4">>
February30 == <<"F","e","b","r","u","a","r","y"," ","3","0">>

\* env::args(): no date argument, a date argument, a date that does not exist
Argvs == { <<"daily-stoic">>,
           <<"daily-stoic", "show", December31>>,
           <<"daily-stoic", "show", February30>> }

\* Local::now().date_naive()
Todays == { Ymd(2025, 3, 3) }

\* the lines a fetched page is made of
BodyLineValues == { March3, March4, December31, StayingStoic,
                    <<"T">>, <<EmDash, "A">> }

SeqsUpTo(S, n) == UNION { [1..k -> S] : k \in 0..n }

Bodies == { join(ls, <<NL>>) : ls \in SeqsUpTo(BodyLineValues, MaxBodyLines) }

\* response_json: the "error" member (absent, null, a string, an object
\* without and with a message) and the "choices" member down to the content
ErrorMember(i) ==
    CASE i = 1 -> <<>>
      [] i = 2 -> ("error" :> JNull)
      [] i = 3 -> ("error" :> JString(<<"e">>))
      [] i = 4 -> ("error" :> JObject(<<>>))
      [] i = 5 -> ("error" :> JObject("message" :> JString(<<"m">>)))

Choice(content) == JObject("message" :> JObject("content" :> content))

ChoicesMember(j) ==
    CASE j = 1 -> <<>>
      [] j = 2 -> ("choices" :> JArray(<<>>))
      [] j = 3 -> ("choices" :> JArray(<<JObject(<<>>)>>))
      [] j = 4 -> ("choices" :> JArray(<<JObject("message" :> JObject(<<>>))>>))
      [] j = 5 -> ("choices" :> JArray(<<Choice(JNull)>>))
      [] j = 6 -> ("choices" :> JArray(<<Choice(JNumber)>>))
      [] j = 7 -> ("choices" :> JArray(<<Choice(JString(<<>>))>>))
      [] j = 8 -> ("choices" :> JArray(<<Choice(JString(<<"Q", SP>>))>>))
      [] j = 9 -> ("choices" :> JArray(<<Choice(JString(<<"Q", SP>>)), Choice(JString(<<"Z">>))>>))

ResponseJson(i, j) == JObject(ErrorMember(i) @@ ChoicesMember(j))

Faults == {"endpoint", "api_key", "send", "json"}

\* -------------------------------------------------------------- the run
Fail(kind) ==
    /\ outcome' = kind
    /\ pc' = "done"

\* line 16
GetDateArg ==
    /\ pc = "get_date_arg"
    /\ started' = Append(started, "get_date_arg")
    /\ \E today \in Todays :
         LET r == get_date_arg(args, today)
         IN  IF r.ok
             THEN /\ date' = Some(r.val)
                  /\ pc' = "next_date"
                  /\ outcome' = outcome
             ELSE /\ date' = date
                  /\ Fail("err")
    /\ UNCHANGED <<args, next_date, body, date_text, daily, replies, results,
                   calls, stdout>>

\* lines 19-23
NextDate ==
    /\ pc = "next_date"
    /\ started' = Append(started, "next_date")
    /\ next_date' = IF date[1] = December31
                    THEN Some(StayingStoic)
                    ELSE Some(increment_date(date[1]))
    /\ pc' = "env_url"
    /\ UNCHANGED <<args, date, body, date_text, daily, replies, results,
                   calls, stdout, outcome>>

\* line 26
EnvUrl ==
    /\ pc = "env_url"
    /\ started' = Append(started, "env_url")
    /\ \E is_set \in BOOLEAN :
         IF is_set
         THEN pc' = "fetch_page_body" /\ outcome' = outcome
         ELSE Fail("err")
    /\ UNCHANGED <<args, date, next_date, body, date_text, daily, replies,
                   results, calls, stdout>>

\* line 29
FetchPageBody ==
    /\ pc = "fetch_page_body"
    /\ started' = Append(started, "fetch_page_body")
    /\ \E fetched \in BOOLEAN :
         IF fetched
         THEN /\ \E b \in Bodies : body' = Some(b)
              /\ pc' = "get_date_text"
              /\ outcome' = outcome
         ELSE /\ body' = body
              /\ Fail("err")
    /\ UNCHANGED <<args, date, next_date, date_text, daily, replies, results,
                   calls, stdout>>

\* lines 32-33
GetDateText ==
    /\ pc = "get_date_text"
    /\ started' = Append(started, "get_date_text")
    /\ date_text' = get_date_text(body[1], date[1], next_date[1])
    /\ IF date_text' # None
       THEN pc' = "format_daily" /\ outcome' = outcome
       ELSE Fail("err")
    /\ UNCHANGED <<args, date, next_date, body, daily, replies, results,
                   calls, stdout>>

\* line 36
FormatDaily ==
    /\ pc = "format_daily"
    /\ started' = Append(started, "format_daily")
    /\ daily' = format_daily(date_text[1])
    /\ IF daily' # None
       THEN pc' = "fix_quote" /\ outcome' = outcome
       ELSE Fail("panic")
    /\ UNCHANGED <<args, date, next_date, body, date_text, replies, results,
                   calls, stdout>>

\* one call of fix_text_using_llm(text) answered by reply
CallLlm(text, reply) ==
    /\ replies' = Append(replies, reply)
    /\ results' = Append(results, fix_text_using_llm(text, reply))
    /\ calls' = IF Posted(reply) THEN Append(calls, text) ELSE calls

RunReplies ==
    { Reply(f, JNull) : f \in {"api_key", "send"} }
      \cup { Reply("none", ResponseJson(i, j)) : i \in {1, 5}, j \in {1, 7, 8} }

\* line 39 without the "?": the error is kept and the run goes on
FixQuoteCarriesOn ==
    /\ pc = "fix_quote"
    /\ started' = Append(started, "fix_quote")
    /\ \E reply \in RunReplies :
         /\ CallLlm(daily[1].quote, reply)
         /\ LET r == fix_text_using_llm(daily[1].quote, reply)
            IN  /\ daily' = IF r.ok THEN Some([daily[1] EXCEPT !.quote = r.val])
                            ELSE daily
                /\ outcome' = IF r.ok THEN outcome ELSE "err"
                /\ pc' = "fix_explanation"
    /\ UNCHANGED <<args, date, next_date, body, date_text, stdout>>

\* line 39
FixQuote ==
    /\ pc = "fix_quote"
    /\ started' = Append(started, "fix_quote")
    /\ \E reply \in RunReplies :
         /\ CallLlm(daily[1].quote, reply)
         /\ LET r == fix_text_using_llm(daily[1].quote, reply)
            IN  IF r.ok
                THEN /\ daily' = Some([daily[1] EXCEPT !.quote = r.val])
                     /\ pc' = "fix_explanation"
                     /\ outcome' = outcome
                ELSE /\ daily' = daily
                     /\ Fail("err")
    /\ UNCHANGED <<args, date, next_date, body, date_text, stdout>>

\* line 42 with unwrap_or(original) in place of "?": a failed correction
\* leaves the explanation as it was and the run goes on
FixExplanationKeepsOriginal ==
    /\ pc = "fix_explanation"
    /\ started' = Append(started, "fix_explanation")
    /\ \E reply \in RunReplies :
         /\ CallLlm(daily[1].explanation, reply)
         /\ LET r == fix_text_using_llm(daily[1].explanation, reply)
            IN  daily' = IF r.ok THEN Some([daily[1] EXCEPT !.explanation = r.val])
                         ELSE daily
         /\ pc' = "print"
         /\ outcome' = outcome
    /\ UNCHANGED <<args, date, next_date, body, date_text, stdout>>

\* line 42 with &daily.quote as the argument
FixExplanationSendsQuote ==
    /\ pc = "fix_explanation"
    /\ started' = Append(started, "fix_explanation")
    /\ \E reply \in RunReplies :
         /\ CallLlm(daily[1].quote, reply)
         /\ LET r == fix_text_using_llm(daily[1].quote, reply)
            IN  IF r.ok
                THEN /\ daily' = Some([daily[1] EXCEPT !.explanation = r.val])
                     /\ pc' = "print"
                     /\ outcome' = outcome
                ELSE /\ daily' = daily
                     /\ Fail("err")
    /\ UNCHANGED <<args, date, next_date, body, date_text, stdout>>

\* line 42
FixExplanation ==
    /\ pc = "fix_explanation"
    /\ started' = Append(started, "fix_explanation")
    /\ \E reply \in RunReplies :
         /\ CallLlm(daily[1].explanation, reply)
         /\ LET r == fix_text_using_llm(daily[1].explanation, reply)
            IN  IF r.ok
                THEN /\ daily' = Some([daily[1] EXCEPT !.explanation = r.val])
                     /\ pc' = "print"
                     /\ outcome' = outcome
                ELSE /\ daily' = daily
                     /\ Fail("err")
    /\ UNCHANGED <<args, date, next_date, body, date_text, stdout>>

\* lines 44-50
PrintDaily ==
    /\ pc = "print"
    /\ started' = Append(started, "print")
    /\ stdout' = <<daily[1].date, daily[1].title, daily[1].quote,
                   daily[1].quoter, daily[1].explanation>>
    /\ outcome' = "ok"
    /\ pc' = "done"
    /\ UNCHANGED <<args, date, next_date, body, date_text, daily, replies,
                   results, calls>>

Blank ==
    /\ date = None
    /\ next_date = None
    /\ body = None
    /\ date_text = None
    /\ daily = None
    /\ replies = <<>>
    /\ results = <<>>
    /\ calls = <<>>
    /\ stdout = <<>>
    /\ started = <<>>
    /\ outcome = "running"

Init ==
    /\ pc = "get_date_arg"
    /\ args \in Argvs
    /\ Blank

Next ==
    \/ GetDateArg
    \/ NextDate
    \/ EnvUrl
    \/ FetchPageBody
    \/ GetDateText
    \/ FormatDaily
    \/ FixQuote
    \/ FixExplanation
    \/ PrintDaily

Spec == Init /\ [][Next]_vars

\* ============================================ the functions, one at a time
\* ---- get_date_arg then increment_date, over every day of the year 2000
DaysOf2000 ==
    { dt \in [y : {2000}, m : 1..12, d : 1..31] : ValidYmd(dt.y, dt.m, dt.d) }

InitDate ==
    /\ pc = "get_date_arg"
    /\ args \in { <<"daily-stoic", "show", format(dt)>> : dt \in DaysOf2000 }
    /\ Blank

\* lines 114-119, whatever the date (main makes the call for every date
\* but "December 31")
IncrementDate ==
    /\ pc = "next_date"
    /\ started' = Append(started, "next_date")
    /\ next_date' = Some(increment_date(date[1]))
    /\ pc' = "done"
    /\ UNCHANGED <<args, date, body, date_text, daily, replies, results,
                   calls, stdout, outcome>>

NextDate2000 == GetDateArg \/ IncrementDate

SpecDate == InitDate /\ [][NextDate2000]_vars

\* ---- get_date_text, over documents, target labels and successor labels
March31 == <<"M","a","r","c","h"," ","3","1">>

LocateLabels == { March3, March31, March4 }

LocateLineValues == LocateLabels \cup { <<>>, <<"x">> }

\* how the last line of a document ends
LineEndings == { <<>>, <<NL>>, <<CR, NL>> }

InitLocate ==
    /\ pc = "get_date_text"
    /\ args = <<"daily-stoic">>
    /\ \E d \in LocateLabels, nd \in LocateLabels :
         /\ date = Some(d)
         /\ next_date = Some(nd)
    /\ \E ls \in SeqsUpTo(LocateLineValues, MaxDocLines), e \in LineEndings :
         body = Some(join(ls, <<NL>>) \o e)
    /\ date_text = None
    /\ daily = None
    /\ replies = <<>>
    /\ results = <<>>
    /\ calls = <<>>
    /\ stdout = <<>>
    /\ started = <<>>
    /\ outcome = "running"

SpecLocate == InitLocate /\ [][GetDateText]_vars

\* ---- format_daily, over blocks
SegmentLineValues ==
    { <<>>, <<"x">>, <<SP, "y", SP>>, <<EmDash, "A", SP>>, <<SP, EmDash>> }

InitSegment ==
    /\ pc = "format_daily"
    /\ args = <<"daily-stoic">>
    /\ date = None
    /\ next_date = None
    /\ body = None
    /\ \E ls \in SeqsUpTo(SegmentLineValues, MaxBlockLines) :
         date_text = Some(join(ls, <<NL>>))
    /\ daily = None
    /\ replies = <<>>
    /\ results = <<>>
    /\ calls = <<>>
    /\ stdout = <<>>
    /\ started = <<>>
    /\ outcome = "running"

SpecSegment == InitSegment /\ [][FormatDaily]_vars

\* ---- fix_text_using_llm, over texts and replies
AllReplies ==
    { Reply(f, JNull) : f \in Faults }
      \cup { Reply("none", ResponseJson(i, j)) : i \in 1..5, j \in 1..9 }
      \cup { Reply("none", JArray(<<>>)) }

FixTexts == { <<>>, <<"q">>, <<"Q", SP>> }

InitDecode ==
    /\ pc = "fix_quote"
    /\ args = <<"daily-stoic">>
    /\ date = None
    /\ next_date = None
    /\ body = None
    /\ date_text = None
    /\ \E q \in FixTexts :
         daily = Some(Daily(March3, <<"T">>, q, <<EmDash, "A">>, <<"e">>))
    /\ replies = <<>>
    /\ results = <<>>
    /\ calls = <<>>
    /\ stdout = <<>>
    /\ started = <<>>
    /\ outcome = "running"

\* line 39, with every reply the endpoint can give
FixQuoteAnyReply ==
    /\ pc = "fix_quote"
    /\ started' = Append(started, "fix_quote")
    /\ \E reply \in AllReplies :
         /\ CallLlm(daily[1].quote, reply)
         /\ LET r == fix_text_using_llm(daily[1].quote, reply)
            IN  IF r.ok
                THEN /\ daily' = Some([daily[1] EXCEPT !.quote = r.val])
                     /\ pc' = "fix_explanation"
                     /\ outcome' = outcome
                ELSE /\ daily' = daily
                     /\ Fail("err")
    /\ UNCHANGED <<args, date, next_date, body, date_text, stdout>>

SpecDecode == InitDecode /\ [][FixQuoteAnyReply]_vars

\* ================================================================== claims
Min(S) == CHOOSE x \in S : \A y \in S : x <= y

HasStarted(stage) == \E i \in 1..Len(started) : started[i] = stage

\* the 1-based positions of the lines of ls, from position from on, that
\* begin with prefix
PositionsWith(ls, prefix, from) ==
    { i \in from..Len(ls) : starts_with(ls[i], prefix) }

\* ---------------------------------------------------------------------- C1
\* C1: get_date_text returns a block exactly when some line begins with the
\* target label and some line strictly after the first such line begins
\* with the successor label; the block is the lines from the first target
\* line (inclusive) to the first successor line after it (exclusive), in
\* order, joined with newlines; in every other case it returns None.
C1_LocateBlock ==
    HasStarted("get_date_text") =>
      LET ls == lines(body[1])
          S == PositionsWith(ls, date[1], 1)
      IN  IF S = {} THEN date_text = None
          ELSE LET E == PositionsWith(ls, next_date[1], Min(S) + 1)
               IN  IF E = {} THEN date_text = None
                   ELSE /\ date_text # None
                        /\ date_text[1] =
                             join([i \in 1..(Min(E) - Min(S)) |-> ls[Min(S) + i - 1]],
                                  <<NL>>)

\* a block of two lines or more was found although a successor line also
\* stands before the first target line and a target line inside the block
C1_Witness ==
    /\ HasStarted("get_date_text")
    /\ date_text # None
    /\ LET ls == lines(body[1])
           S == PositionsWith(ls, date[1], 1)
           E == PositionsWith(ls, next_date[1], 1)
       IN  /\ Min(E) < Min(S)
           /\ Len(lines(date_text[1])) >= 2
           /\ date[1] # next_date[1]

MarkedFrom2(ls) == { i \in 2..(Len(ls) - 1) : ls[i + 1] # <<>> /\ ls[i + 1][1] = EmDash }

\* lines[from..to) of a block (0-based), joined with single spaces, trimmed
JoinedTrimmed(ls, from, to) ==
    trim(join([k \in 1..(to - from) |-> ls[from + k]], <<SP>>))

\* C3: for a block of at least 2 lines whose smallest index p >= 2 of an
\* em-dash line exists, format_daily yields date = line 0 trimmed, title =
\* line 1 trimmed, quote = lines[2..p) joined with spaces and trimmed,
\* attribution = line p trimmed, explanation = lines[p+1..end) joined with
\* spaces and trimmed; later em-dash lines belong to the explanation and an
\* em-dash line at index 0 or 1 is never the pivot.
C3_Segmentation ==
    (HasStarted("format_daily") /\ ~HasStarted("fix_quote")) =>
      LET ls == lines(date_text[1])
      IN  (Len(ls) >= 2 /\ MarkedFrom2(ls) # {}) =>
            LET p == Min(MarkedFrom2(ls))
            IN  /\ daily # None
                /\ daily[1].date = trim(ls[1])
                /\ daily[1].title = trim(ls[2])
                /\ daily[1].quote = JoinedTrimmed(ls, 2, p)
                /\ daily[1].quoter = trim(ls[p + 1])
                /\ daily[1].explanation = JoinedTrimmed(ls, p + 1, Len(ls))

\* a segmented block with an em-dash line at index 1, a quote line, the
\* pivot, and a second em-dash line after the pivot
C3_Witness ==
    /\ HasStarted("format_daily")
    /\ daily # None
    /\ LET ls == lines(date_text[1])
       IN  /\ Len(ls) >= 5
           /\ starts_with(ls[2], <<EmDash>>)
           /\ Min(MarkedFrom2(ls)) = 3
           /\ Cardinality(MarkedFrom2(ls)) >= 2
           /\ daily[1].quote # <<>>
           /\ daily[1].explanation # <<>>

\* ---------------------------------------------------------------------- C4
\* C4: format_daily fails for every block with fewer than 2 lines or with
\* no em-dash line at an index >= 2 (the one-line block of a target header
\* directly followed by the successor header included), and the run then
\* ends without a record, without any correction call and without output.
C4_MalformedBlockAborts ==
    HasStarted("format_daily") =>
      LET ls == lines(date_text[1])
      IN  (Len(ls) < 2 \/ MarkedFrom2(ls) = {}) =>
            /\ daily = None
            /\ outcome = "panic"
            /\ pc = "done"
            /\ ~HasStarted("fix_quote")
            /\ ~HasStarted("fix_explanation")
            /\ ~HasStarted("print")
            /\ calls = <<>>
            /\ stdout = <<>>

\* the run panicked in format_daily on the one-line block that
\* get_date_text returned
C4_Witness ==
    /\ HasStarted("format_daily")
    /\ body # None
    /\ Len(lines(date_text[1])) = 1
    /\ outcome = "panic"
    /\ pc = "done"

\* ---------------------------------------------------------------------- C5
\* C5: whenever format_daily succeeds, the record's quote and explanation
\* are both non-empty.
C5_QuoteAndExplanationNonEmpty ==
    (HasStarted("format_daily") /\ ~HasStarted("fix_quote") /\ daily # None) =>
      /\ daily[1].quote # <<>>
      /\ daily[1].explanation # <<>>

\* ---------------------------------------------------------------------- C6
\* the stages of main, in the order of its statements
StageOrder ==
    <<"get_date_arg", "next_date", "env_url", "fetch_page_body", "get_date_text",
      "format_daily", "fix_quote", "fix_explanation", "print">>

\* C6: the record is printed only after date resolution, fetch, locate,
\* segment, quote correction and explanation correction have all succeeded;
\* a run in which any of them failed prints nothing, and what is printed as
\* quote and explanation is the corrected text of two successful calls.
C6_PrintOnlyAfterAllSucceeded ==
    /\ outcome \in {"err", "panic"} => stdout = <<>>
    /\ outcome = "running" => stdout = <<>>
    /\ stdout # <<>> =>
         /\ outcome = "ok"
         /\ started = StageOrder
         /\ date # None /\ body # None /\ date_text # None /\ daily # None
         /\ Len(results) = 2
         /\ results[1].ok /\ results[2].ok
         /\ Len(stdout) = 5
         /\ stdout[3] = results[1].val
         /\ stdout[5] = results[2].val

\* the quote was corrected, the correction of the explanation failed, and
\* the run ended with nothing printed
C6_Witness ==
    /\ Len(results) = 2
    /\ results[1].ok
    /\ ~results[2].ok
    /\ daily # None
    /\ daily[1].quote = results[1].val
    /\ outcome = "err"
    /\ pc = "done"
    /\ stdout = <<>>

\* ---------------------------------------------------------------------- C7
IsPrefix(s, t) == Len(s) <= Len(t) /\ SubSeq(t, 1, Len(s)) = s

\* a step taken after a failure starts no stage, calls nothing, prints nothing
NothingAfterFailure ==
    outcome \in {"err", "panic"} =>
      (started' = started /\ replies' = replies /\ calls' = calls /\ stdout' = stdout)

\* C7: the stages run in the fixed order, each at most once; once a stage
\* has failed no later stage starts; no correction call is made unless
\* locate and segment succeeded, and the explanation is not corrected after
\* the correction of the quote failed.
C7_FixedOrderFailFast ==
    /\ [](/\ IsPrefix(started, StageOrder)
          /\ outcome \in {"err", "panic"} => pc = "done"
          /\ Len(replies) <= 2 /\ Len(calls) <= Len(replies)
          /\ replies # <<>> => (date_text # None /\ daily # None)
          /\ (results # <<>> /\ ~results[1].ok) =>
                (Len(replies) = 1 /\ ~HasStarted("fix_explanation")))
    /\ [][NothingAfterFailure]_vars

\* the correction of the quote failed after the request was posted, and the
\* run ended there
C7_Witness ==
    /\ started = SubSeq(StageOrder, 1, 7)
    /\ Len(calls) = 1
    /\ Len(results) = 1
    /\ ~results[1].ok
    /\ outcome = "err"
    /\ pc = "done"

\* ---------------------------------------------------------------------- C8
\* the lengths of the months of the leap year 2000
MonthLengths2000 == <<31, 29, 31, 30, 31, 30, 31, 31, 30, 31, 30, 31>>

Numeral(n) ==
    IF n < 10 THEN <<Digits[n + 1]>>
    ELSE <<Digits[(n \div 10) + 1], Digits[(n % 10) + 1]>>

RECURSIVE LabelsFromMonth(_)
LabelsFromMonth(m) ==
    IF m > 12 THEN <<>>
    ELSE [d \in 1..MonthLengths2000[m] |-> MonthNames[m] \o <<SP>> \o Numeral(d)]
           \o LabelsFromMonth(m + 1)

\* the 366 canonical labels, "January 1" first
YearLabels == LabelsFromMonth(1)

\* C8: over the 366 canonical labels of the leap year 2000, increment_date
\* maps each label to the label of the following day ("February 28" ->
\* "February 29" -> "March 1", month ends to day 1 of the next month,
\* "December 31" -> "January 1"); the result is again a canonical label
\* that parses and renders to itself.
C8_CyclicSuccessor ==
    /\ Len(YearLabels) = 366
    /\ pc = "done" =>
         LET o == CHOOSE i \in 1..366 : YearLabels[i] = args[3]
             reparsed == get_date_arg(<<"daily-stoic", "show", next_date[1]>>,
                                      Ymd(2000, 1, 1))
         IN  /\ date = Some(args[3])
             /\ next_date = Some(YearLabels[(o % 366) + 1])
             /\ reparsed.ok
             /\ reparsed.val = next_date[1]

\* the successor of "December 31" was computed and is "January 1"
C8_Witness ==
    /\ pc = "done"
    /\ date = Some(December31)
    /\ next_date = Some(<<"J","a","n","u","a","r","y"," ","1">>)

\* ---------------------------------------------------------------------- C9
HasMember(v, key) == v.t = "object" /\ key \in DOMAIN v.fields

\* the response holds a string at choices[0].message.content
HasContentString(j) ==
    /\ HasMember(j, "choices")
    /\ j.fields["choices"].t = "array"
    /\ Len(j.fields["choices"].items) >= 1
    /\ HasMember(j.fields["choices"].items[1], "message")
    /\ HasMember(j.fields["choices"].items[1].fields["message"], "content")
    /\ j.fields["choices"].items[1].fields["message"].fields["content"].t = "string"

ContentString(j) ==
    j.fields["choices"].items[1].fields["message"].fields["content"].s

\* C9: a response with a top-level "error" member is a failure even when it
\* also carries content (with the error's message if it has one, else the
\* generic failure); a response without one succeeds with exactly the
\* string at choices[0].message.content and fails when there is no such
\* string. A failure returns no text: the field keeps no substitute and the
\* run ends without output.
C9_DecodeResponse ==
    \A k \in 1..Len(results) :
      LET reply == replies[k]
          j == reply.json
          r == results[k]
      IN  /\ reply.fault # "none" => ~r.ok
          /\ (reply.fault = "none" /\ HasMember(j, "error")) =>
               /\ ~r.ok
               /\ IF HasMember(j.fields["error"], "message")
                  THEN r.val = <<"LLM error", j.fields["error"].fields["message"]>>
                  ELSE r.val = <<"LLM error and no message">>
          /\ (reply.fault = "none" /\ ~HasMember(j, "error")) =>
               IF HasContentString(j)
               THEN r.ok /\ r.val = ContentString(j)
               ELSE ~r.ok /\ r.val = <<"Failed to extract content">>
          /\ ~r.ok =>
               /\ outcome = "err"
               /\ pc = "done"
               /\ stdout = <<>>

\* a response that carries an error object and a content string was
\* decoded as a failure
C9_Witness ==
    /\ Len(results) = 1
    /\ replies[1].fault = "none"
    /\ HasMember(replies[1].json, "error")
    /\ HasMember(replies[1].json.fields["error"], "message")
    /\ HasContentString(replies[1].json)
    /\ ~results[1].ok
    /\ outcome = "err"

\* --------------------------------------------------------------------- C10
\* C10: on every successful run the endpoint is called exactly twice, first
\* with the segmented quote and then with the segmented explanation; the
\* printed quote and explanation are exactly the texts it returned, and
\* date, title and attribution are printed as segmentation produced them.
C10_TwoCorrectionsNothingElse ==
    outcome = "ok" =>
      LET seg == format_daily(date_text[1])[1]
      IN  /\ calls = <<seg.quote, seg.explanation>>
          /\ Len(replies) = 2
          /\ HasContentString(replies[1].json)
          /\ HasContentString(replies[2].json)
          /\ stdout = <<seg.date, seg.title, ContentString(replies[1].json),
                        seg.quoter, ContentString(replies[2].json)>>
          /\ daily[1] = [seg EXCEPT !.quote = ContentString(replies[1].json),
                                   !.explanation = ContentString(replies[2].json)]

\* a successful run whose segmented quote and explanation differ from each
\* other and from what was printed
C10_Witness ==
    /\ outcome = "ok"
    /\ calls[1] # <<>>
    /\ calls[1] # calls[2]
    /\ stdout[3] # calls[1]
    /\ stdout[5] # calls[2]
    /\ stdout[3] # stdout[5]

====
